---------------------------- MODULE Spec2Model ----------------------------
(***************************************************************************)
(* Model of the Flask2Fly project generator (utils/repo_gen.py): the      *)
(* pipeline of main() over an abstract file system, with the text         *)
(* substitutions of the configuration rewriter computed on character      *)
(* sequences.  A Python str is a sequence of one-character strings.       *)
(***************************************************************************)
EXTENDS Naturals, Integers, Sequences, FiniteSets, TLC

\* ------------------------------------------------------------------------
\* Characters and strings
\* ------------------------------------------------------------------------

LowerCase == <<"a", "b", "c", "d", "e", "f", "g", "h", "i", "j", "k", "l", "m",
               "n", "o", "p", "q", "r", "s", "t", "u", "v", "w", "x", "y", "z">>

UpperCase == <<"A", "B", "C", "D", "E", "F", "G", "H", "I", "J", "K", "L", "M",
               "N", "O", "P", "Q", "R", "S", "T", "U", "V", "W", "X", "Y", "Z">>

Digits == {"0", "1", "2", "3", "4", "5", "6", "7", "8", "9"}

Range(f) == {f[i] : i \in DOMAIN f}

\* [a-zA-Z]
IsLetter(c) == c \in Range(LowerCase) \cup Range(UpperCase)

\* [a-zA-Z0-9_-]
IsNameChar(c) == IsLetter(c) \/ c \in Digits \/ c \in {"_", "-"}

IndexIn(alphabet, c) == CHOOSE i \in DOMAIN alphabet : alphabet[i] = c

\* str.lower() and str.upper(), character by character
LowerChar(c) == IF c \in Range(UpperCase) THEN LowerCase[IndexIn(UpperCase, c)] ELSE c

UpperChar(c) == IF c \in Range(LowerCase) THEN UpperCase[IndexIn(LowerCase, c)] ELSE c

Lower(s) == [i \in 1..Len(s) |-> LowerChar(s[i])]

Upper(s) == [i \in 1..Len(s) |-> UpperChar(s[i])]

\* p occurs in s starting at index i
OccursAt(s, i, p) ==
    /\ i >= 1
    /\ i + Len(p) - 1 <= Len(s)
    /\ \A j \in 1..Len(p) : s[i + j - 1] = p[j]

\* p in s
Contains(s, p) == \E i \in 1..(Len(s) + 1) : OccursAt(s, i, p)

StartsWith(s, p) == OccursAt(s, 1, p)

RECURSIVE ReplaceFrom(_, _, _, _)
ReplaceFrom(s, i, old, new) ==
    IF i > Len(s) THEN <<>>
    ELSE IF OccursAt(s, i, old)
         THEN new \o ReplaceFrom(s, i + Len(old), old, new)
         ELSE <<s[i]>> \o ReplaceFrom(s, i + 1, old, new)

\* str.replace(old, new) for a non-empty old: leftmost occurrences, left to
\* right, never rescanning the text it has produced
Replace(s, old, new) == ReplaceFrom(s, 1, old, new)

Drop(s, n) == IF n >= Len(s) THEN <<>> ELSE SubSeq(s, n + 1, Len(s))

RECURSIVE SplitLines(_)
\* str.split("\n"): the lines of s, without their terminators
SplitLines(s) ==
    IF \A i \in 1..Len(s) : s[i] # "\n" THEN <<s>>
    ELSE LET k == CHOOSE i \in 1..Len(s) :
                      /\ s[i] = "\n"
                      /\ \A j \in 1..(i - 1) : s[j] # "\n"
         IN  <<SubSeq(s, 1, k - 1)>> \o SplitLines(Drop(s, k))

RECURSIVE JoinLines(_)
\* "\n".join(lines)
JoinLines(lines) ==
    IF Len(lines) = 0 THEN <<>>
    ELSE IF Len(lines) = 1 THEN lines[1]
    ELSE lines[1] \o <<"\n">> \o JoinLines(Tail(lines))

\* ------------------------------------------------------------------------
\* Names of the template
\* ------------------------------------------------------------------------

\* the brand of the template, replaced in README.md and in the templates
Brand == <<"F", "l", "a", "s", "k", "2", "F", "l", "y">>

\* the placeholder package directory under src
app_name == <<"a", "p", "p", "_", "n", "a", "m", "e">>

\* ------------------------------------------------------------------------
\* validate_inputs
\* ------------------------------------------------------------------------

\* re.match(r'^[a-zA-Z][a-zA-Z0-9_-]*$', name) is not None.  Without
\* re.MULTILINE, $ matches at the end of the string and also just before a
\* newline that is the last character of the string.
ReMatchName(name) ==
    /\ Len(name) >= 1
    /\ IsLetter(name[1])
    /\ \E k \in 1..Len(name) :
          /\ \A i \in 2..k : IsNameChar(name[i])
          /\ \/ k = Len(name)
             \/ k = Len(name) - 1 /\ name[Len(name)] = "\n"

\* ------------------------------------------------------------------------
\* The substitutions of update_configuration_files and update_template_files
\* ------------------------------------------------------------------------

AppEq == <<"a", "p", "p", " ", "=", " ">>

\* re.sub(r'^app = .*$', f"app = '{project_name}'", c, flags=re.MULTILINE):
\* every line that starts with "app = " is replaced, up to its end
SubFlyToml(c, project_name) ==
    LET lines == SplitLines(c)
        new   == AppEq \o <<"'">> \o project_name \o <<"'">>
    IN  JoinLines([i \in 1..Len(lines) |->
                      IF StartsWith(lines[i], AppEq) THEN new ELSE lines[i]])

\* the length of the longest run of [a-zA-Z0-9_-] in line from index i
RECURSIVE KeyRun(_, _)
KeyRun(line, i) ==
    IF i <= Len(line) /\ IsNameChar(line[i]) THEN 1 + KeyRun(line, i + 1) ELSE 0

\* re.sub(r'^  [a-zA-Z0-9_-]*:', f"  {project_name}:", c, flags=re.MULTILINE):
\* in every line that starts with two spaces, a key and a colon, the key is
\* replaced
SubCompose(c, project_name) ==
    LET lines == SplitLines(c)
        Sub(line) ==
            LET n == KeyRun(line, 3)
            IN  IF /\ StartsWith(line, <<" ", " ">>)
                   /\ Len(line) >= 3 + n
                   /\ line[3 + n] = ":"
                THEN <<" ", " ">> \o project_name \o <<":">> \o Drop(line, 3 + n)
                ELSE line
    IN  JoinLines([i \in 1..Len(lines) |-> Sub(lines[i])])

StaticPath(pkg) == <<"s", "r", "c", "/">> \o pkg \o <<"/", "s", "t", "a", "t", "i", "c">>

\* c.replace("src/app_name/static", f"src/{project_name}/static")
SubDockerfile(c, project_name) ==
    Replace(c, StaticPath(app_name), StaticPath(project_name))

\* c.replace("Flask2Fly", project_name)
SubReadme(c, project_name) == Replace(c, Brand, project_name)

Logo == <<" ", "l", "o", "g", "o">>

\* the four replaces of update_template_files, in their order
SubTemplate(c, project_name) ==
    LET c1 == Replace(c, Brand, project_name)
        c2 == Replace(c1, Lower(Brand), Lower(project_name))
        c3 == Replace(c2, Upper(Brand), Upper(project_name))
    IN  Replace(c3, Lower(Brand) \o Logo, Lower(project_name) \o Logo)

\* ------------------------------------------------------------------------
\* The file system
\* ------------------------------------------------------------------------

\* the files update_configuration_files rewrites, in the order of its dict
ConfigFiles == <<"fly.toml", "docker-compose.yml", "Dockerfile", "README.md">>

\* a file: whether it exists, whether its bytes decode as UTF-8, its content
Absent == [exists |-> FALSE, utf8 |-> TRUE, data |-> <<>>]

TextFile(t) == [exists |-> TRUE, utf8 |-> TRUE, data |-> t]

BinaryFile == [exists |-> TRUE, utf8 |-> FALSE, data |-> <<"0xFF">>]

FlyTomlText == <<"a", "p", "p", " ", "=", " ", "'", "f", "l", "a", "s", "k", "2", "f", "l", "y",
                 "'", "\n", "r", "e", "g", "i", "o", "n">>

ComposeText == <<"s", "e", "r", "v", "i", "c", "e", "s", ":", "\n", " ", " ", "w", "e", "b", ":",
                 "\n", " ", " ", " ", " ", "b", "u", "i", "l", "d", ":", " ", ".">>

DockerfileText == <<"C", "O", "P", "Y", " ", "s", "r", "c", "/", "a", "p", "p", "_", "n", "a", "m",
                    "e", "/", "s", "t", "a", "t", "i", "c", " ", "s">>

ReadmeText == <<"#", " ", "F", "l", "a", "s", "k", "2", "F", "l", "y", "\n", "F", "l", "a", "s",
                "k", "2", "F", "l", "y", " ", "a", "p", "p">>

HtmlText == <<"F", "l", "a", "s", "k", "2", "F", "l", "y", " ", "f", "l", "a", "s", "k", "2", "f",
              "l", "y", " ", "l", "o", "g", "o", " ", "F", "L", "A", "S", "K", "2", "F", "L", "Y">>

TemplateText(f) ==
    CASE f = "fly.toml" -> FlyTomlText
      [] f = "docker-compose.yml" -> ComposeText
      [] f = "Dockerfile" -> DockerfileText
      [] f = "README.md" -> ReadmeText

modules == <<"m", "o", "d", "u", "l", "e", "s">>

\* src/main.py, its first line
MainPyText == <<"f", "r", "o", "m", " ", "a", "p", "p", "_", "n", "a", "m", "e", ".", "c", "o", "r", "e">>

\* a directory under src: the package (core.py with its key_features list,
\* templates/index.html) or another directory
Package(html) == [kind |-> "package", core |-> "template", html |-> html]

OtherDir == [kind |-> "modules", core |-> "none", html |-> Absent]

\* a project tree: the directories under src, the configuration files at
\* its root, and the package src/main.py imports
Tree(src, files) == [src |-> src, files |-> files, mainPy |-> MainPyText]

NoTree == [src |-> <<>>, files |-> [f \in Range(ConfigFiles) |-> Absent], mainPy |-> <<>>]

AllText == [f \in Range(ConfigFiles) |-> TextFile(TemplateText(f))]

FullSrc == [d \in {app_name, modules} |-> IF d = app_name THEN Package(TextFile(HtmlText)) ELSE OtherDir]

\* the template repository as this repository lays it out
TemplateRepo == Tree(FullSrc, AllText)

\* ------------------------------------------------------------------------
\* State
\* ------------------------------------------------------------------------

VARIABLES
    argv,       \* sys.argv[1:]
    apiKey,     \* whether OPENAI_API_KEY is set
    remote,     \* the tree the template repository holds
    fs0,        \* the file system when main starts
    pc,         \* the step of main that runs next
    exitCode,   \* the exit status of the process, -1 while it runs
    error,      \* what ended the run
    cwd,        \* the working directory: where main started, or the project
    fs,         \* the file system
    warnings,   \* the warnings print_status has printed
    stages,     \* the stages of the pipeline entered so far
    runs,       \* how often each external command or request was issued
    description,\* what input("> ") read: plain text, or text with a bad escape
    features,   \* what generate_features returned
    theme,      \* whether generate_theme returned colors and a logo
    removal,    \* what the last safe_remove_git_dir call tried, in order
    reported    \* whether the success report was printed

vars == <<argv, apiKey, remote, fs0, description, pc, exitCode, error, cwd, fs, warnings, stages,
          runs, features, theme, removal, reported>>

inputs == <<argv, apiKey, remote, fs0, description>>

Dot == <<".">>

\* project_name = sys.argv[1]
project_name == argv[1]

\* project_dir = Path(sys.argv[2] if len(sys.argv) > 2 else ".")
project_dir == IF Len(argv) > 1 THEN argv[2] ELSE Dot

IsAbsolute(path) == Len(path) >= 1 /\ path[1] = "/"

\* project_path = project_dir / project_name is resolved against the working
\* directory each time it is used: a relative one names the project
\* directory only while the process is where it started
ProjectPathResolves == IsAbsolute(project_dir) \/ cwd = "start"

\* ------------------------------------------------------------------------
\* The steps of main
\* ------------------------------------------------------------------------

\* main with the theme generated before the modules are initialized
MainOrderThemeFirst ==
    <<"main", "validate_inputs", "setup_project_directory", "clean_temp_clone",
      "git_clone", "copy_template", "safe_remove_git_dir", "chdir",
      "rename_project_files", "update_python_files", "check_api_key",
      "update_configuration_files", "generate_theme", "update_theme_files",
      "initialize_modules", "initialize_project", "report", "done">>

MainOrder ==
    <<"main", "validate_inputs", "setup_project_directory", "clean_temp_clone",
      "git_clone", "copy_template", "safe_remove_git_dir", "chdir",
      "rename_project_files", "update_python_files", "check_api_key",
      "update_configuration_files", "initialize_modules", "initialize_project",
      "generate_theme", "update_theme_files", "report", "done">>

NextStep(step) == MainOrder[IndexIn(MainOrder, step) + 1]

StageOf(step) ==
    CASE step \in {"main", "validate_inputs", "setup_project_directory"} -> "Validate"
      [] step \in {"clean_temp_clone", "git_clone", "copy_template", "safe_remove_git_dir"} -> "Fetch"
      [] step \in {"chdir", "rename_project_files", "update_python_files"} -> "Rename"
      [] step \in {"check_api_key", "update_configuration_files"} -> "RewriteConfigs"
      [] step = "initialize_modules" -> "InitModules"
      [] step = "initialize_project" -> "InitProject"
      [] step \in {"generate_theme", "update_theme_files"} -> "GenerateTheme"
      [] step = "report" -> "Report"

Entered(stage) ==
    IF stages # <<>> /\ stages[Len(stages)] = stage THEN stages ELSE Append(stages, stage)

Terminal == {"done", "exit", "crashed"}

\* the step at pc has run; control passes to target
Goto(target, why) ==
    /\ pc' = target
    /\ stages' = Entered(StageOf(pc))
    /\ error' = why
    /\ exitCode' = IF target \in {"exit", "crashed"} THEN 1
                   ELSE IF target = "done" THEN 0 ELSE exitCode

\* the step returned normally
Return == Goto(NextStep(pc), error)

\* print_error ending the process with sys.exit(0)
print_error_exit_zero(why) ==
    /\ pc' = "exit"
    /\ stages' = Entered(StageOf(pc))
    /\ error' = why
    /\ exitCode' = 0

\* print_error: the message on stderr, then sys.exit(1)
print_error(why) == Goto("exit", why)

\* an exception no handler of main catches
Raise(why) == Goto("crashed", why)

Commands ==
    {"git clone", "pages git init", "pages git add", "pages git commit", "git init",
     "flask_keygen", "pip install", "features request", "colors request",
     "image request", "logo download"}

Ran(cmds) == [c \in Commands |-> IF c \in cmds THEN runs[c] + 1 ELSE runs[c]]

\* main, lines 493-503: the arguments
main ==
    /\ pc = "main"
    /\ IF Len(argv) < 1 THEN print_error("Project name is required") ELSE Return
    /\ UNCHANGED <<inputs, cwd, fs, warnings, runs, features, theme, removal, reported>>

validate_inputs ==
    /\ pc = "validate_inputs"
    /\ IF project_name = <<>> THEN Goto("exit", "usage")
       ELSE IF ~ReMatchName(project_name) THEN print_error("bad project name")
       ELSE Return
    /\ UNCHANGED <<inputs, cwd, fs, warnings, runs, features, theme, removal, reported>>

\* setup_project_directory without its test of project_path.exists()
setup_project_directory_unchecked ==
    /\ pc = "setup_project_directory"
    /\ Return
    /\ fs' = [fs EXCEPT !.parent = TRUE]
    /\ UNCHANGED <<inputs, cwd, warnings, runs, features, theme, removal, reported>>

setup_project_directory ==
    /\ pc = "setup_project_directory"
    /\ IF fs.proj
       THEN print_error("directory already exists") /\ fs' = fs
       ELSE Return /\ fs' = [fs EXCEPT !.parent = TRUE]
    /\ UNCHANGED <<inputs, cwd, warnings, runs, features, theme, removal, reported>>

\* one removal strategy that was tried, and what it achieved
Tried(strategy, outcome) == <<strategy, outcome>>

\* safe_remove_git_dir without its tests of path.exists() between the
\* strategies
SafeRemoveEager(exists, s1, s2, s3) ==
    IF ~exists THEN [temp |-> FALSE, warned |-> FALSE, log |-> <<>>]
    ELSE IF s2 = "raises"
    THEN [temp |-> s1 # "removed", warned |-> TRUE,
          log |-> <<Tried("rmtree", s1), Tried("chmod rmtree", s2)>>]
    ELSE [temp |-> "removed" \notin {s1, s2, s3}, warned |-> FALSE,
          log |-> <<Tried("rmtree", s1), Tried("chmod rmtree", s2), Tried("rm -rf", s3)>>]

\* safe_remove_git_dir(path), given whether path exists and what each of its
\* removal strategies achieves: whether path still exists, whether the
\* warning was printed, and the strategies tried with their outcomes
SafeRemove(exists, s1, s2, s3) ==
    IF ~exists THEN [temp |-> FALSE, warned |-> FALSE, log |-> <<>>]
    ELSE IF s1 = "removed"
    THEN [temp |-> FALSE, warned |-> FALSE, log |-> <<Tried("rmtree", s1)>>]
    ELSE IF s2 = "removed"
    THEN [temp |-> FALSE, warned |-> FALSE,
          log |-> <<Tried("rmtree", s1), Tried("chmod rmtree", s2)>>]
    ELSE IF s2 = "raises"
    THEN [temp |-> TRUE, warned |-> TRUE,
          log |-> <<Tried("rmtree", s1), Tried("chmod rmtree", s2)>>]
    ELSE [temp |-> s3 # "removed", warned |-> FALSE,
          log |-> <<Tried("rmtree", s1), Tried("chmod rmtree", s2), Tried("rm -rf", s3)>>]

Strategy1 == {"removed", "remains"}

Strategy2 == {"removed", "remains", "raises"}

Strategy3 == {"removed", "remains"}

CleanupWarning == <<"Could not fully clean up", "temp_clone">>

\* main, lines 510-518: a temp_clone left over from an earlier run
clean_temp_clone ==
    /\ pc = "clean_temp_clone"
    /\ \E plain \in BOOLEAN, s1 \in Strategy1, s2 \in Strategy2, s3 \in Strategy3 :
          LET r == SafeRemove(TRUE, s1, s2, s3)
          IN  IF ~fs.temp
              THEN UNCHANGED <<fs, warnings, removal>>
              ELSE IF plain
              THEN fs' = [fs EXCEPT !.temp = FALSE] /\ UNCHANGED <<warnings, removal>>
              ELSE /\ fs' = [fs EXCEPT !.temp = r.temp]
                   /\ warnings' = IF r.warned THEN warnings \cup {CleanupWarning} ELSE warnings
                   /\ removal' = r.log
    /\ Return
    /\ UNCHANGED <<inputs, cwd, runs, features, theme, reported>>

\* main, line 520: git clone refuses a destination that exists and is not empty
git_clone ==
    /\ pc = "git_clone"
    /\ \E ok \in BOOLEAN :
          IF ok /\ ~fs.temp
          THEN Return /\ fs' = [fs EXCEPT !.temp = TRUE]
          ELSE Raise("git clone") /\ fs' = fs
    /\ runs' = Ran({"git clone"})
    /\ UNCHANGED <<inputs, cwd, warnings, features, theme, removal, reported>>

\* main, lines 522-531: everything but .git is copied into the project
copy_template ==
    /\ pc = "copy_template"
    /\ fs' = [fs EXCEPT !.proj = TRUE, !.tree = remote]
    /\ Return
    /\ UNCHANGED <<inputs, cwd, warnings, runs, features, theme, removal, reported>>

\* main, line 534
safe_remove_git_dir ==
    /\ pc = "safe_remove_git_dir"
    /\ \E s1 \in Strategy1, s2 \in Strategy2, s3 \in Strategy3 :
          LET r == SafeRemove(fs.temp, s1, s2, s3)
          IN  /\ fs' = [fs EXCEPT !.temp = r.temp]
              /\ warnings' = IF r.warned THEN warnings \cup {CleanupWarning} ELSE warnings
              /\ removal' = r.log
    /\ Return
    /\ UNCHANGED <<inputs, cwd, runs, features, theme, reported>>

\* main, line 537: os.chdir(project_path)
chdir ==
    /\ pc = "chdir"
    /\ cwd' = "project"
    /\ Return
    /\ UNCHANGED <<inputs, fs, warnings, runs, features, theme, removal, reported>>

Without(src, d) == [e \in DOMAIN src \ {d} |-> src[e]]

\* lines 63-66 of rename_project_files on the directories under src: what is
\* left of them, and whether app_dir.rename found app_name
RenameDirs(src, name) ==
    LET cleared == IF name \in DOMAIN src THEN Without(src, name) ELSE src
    IN  IF app_name \in DOMAIN cleared
        THEN [ok |-> TRUE,
              src |-> [d \in (DOMAIN cleared \ {app_name}) \cup {name} |->
                          IF d = name THEN cleared[app_name] ELSE cleared[d]]]
        ELSE [ok |-> FALSE, src |-> cleared]

rename_project_files ==
    /\ pc = "rename_project_files"
    /\ IF ~ProjectPathResolves
       THEN print_error("Source directory not found") /\ fs' = fs
       ELSE IF app_name \notin DOMAIN fs.tree.src
       THEN print_error("App directory not found") /\ fs' = fs
       ELSE LET r == RenameDirs(fs.tree.src, project_name)
            IN  /\ fs' = [fs EXCEPT !.tree.src = r.src]
                /\ IF r.ok THEN Return ELSE Raise("FileNotFoundError")
    /\ UNCHANGED <<inputs, cwd, warnings, runs, features, theme, removal, reported>>

FromPrefix(pkg) == <<"f", "r", "o", "m", " ">> \o pkg

ImportPrefix(pkg) == <<"i", "m", "p", "o", "r", "t", " ">> \o pkg

\* the two replaces of update_python_files
SubPython(c, name) ==
    Replace(Replace(c, FromPrefix(app_name), FromPrefix(name)),
            ImportPrefix(app_name), ImportPrefix(name))

update_python_files ==
    /\ pc = "update_python_files"
    /\ fs' = IF ProjectPathResolves
             THEN [fs EXCEPT !.tree.mainPy = SubPython(@, project_name)]
             ELSE fs
    /\ Return
    /\ UNCHANGED <<inputs, cwd, warnings, runs, features, theme, removal, reported>>

\* main, lines 543-547
check_api_key ==
    /\ pc = "check_api_key"
    /\ IF apiKey THEN Return ELSE print_error("OPENAI_API_KEY is required")
    /\ UNCHANGED <<inputs, cwd, fs, warnings, runs, features, theme, removal, reported>>

FeatureOutcomes == {"ok", "api error", "bad json", "not four objects", "missing field"}

\* generate_features with the fallback list for every project name
generate_features_any_name(name, outcome) ==
    IF outcome = "ok" THEN "generated" ELSE "fallback"

\* generate_features: the list the request produced, else the fallback list
\* for the template's own name, else None
generate_features(name, outcome) ==
    IF outcome = "ok" THEN "generated"
    ELSE IF name = Brand THEN "fallback" ELSE "None"

SubFor(f, c, name) ==
    CASE f = "fly.toml" -> SubFlyToml(c, name)
      [] f = "docker-compose.yml" -> SubCompose(c, name)
      [] f = "Dockerfile" -> SubDockerfile(c, name)
      [] f = "README.md" -> SubReadme(c, name)

\* the loop body without its test of file_path.exists(): a missing file
\* is written
UpdateFileUnguarded(file, f, name) ==
    IF file.utf8 THEN TextFile(SubFor(f, file.data, name)) ELSE file

\* lines 258-266: one file of the loop
UpdateFile(file, f, name) ==
    IF file.exists /\ file.utf8 THEN [file EXCEPT !.data = SubFor(f, @, name)] ELSE file

EncodingWarning(file, f) ==
    IF file.exists /\ ~file.utf8 THEN {<<"Could not update", f>>} ELSE {}

\* lines 258-266: the loop over the configuration files
UpdateFiles(files, name) == [f \in DOMAIN files |-> UpdateFile(files[f], f, name)]

\* lines 269-317: core.py of the package, patched with the features; a
\* failure (features is None, or re.sub rejects the replacement text) is
\* caught and warned about
PatchFails(feats, descr) == feats = "None" \/ descr = "backslash"

PatchCore(dir, feats, descr) ==
    IF dir.kind = "package" /\ ~PatchFails(feats, descr)
    THEN [dir EXCEPT !.core = feats] ELSE dir

CoreWarning(dir, feats, descr) ==
    IF dir.kind = "package" /\ PatchFails(feats, descr)
    THEN {<<"Could not update", "core.py">>} ELSE {}

\* update_template_files on the package's templates
PatchTemplates(dir, name) ==
    IF dir.html.exists /\ dir.html.utf8
    THEN [dir EXCEPT !.html.data = SubTemplate(@, name)] ELSE dir

\* update_configuration_files on a tree, once generate_features has returned
UpdateTree(tree, name, feats, descr) ==
    LET src == IF name \in DOMAIN tree.src
               THEN [tree.src EXCEPT ![name] = PatchTemplates(PatchCore(@, feats, descr), name)]
               ELSE tree.src
    IN  [tree EXCEPT !.files = UpdateFiles(tree.files, name), !.src = src]

UpdateWarnings(tree, name, feats, descr) ==
    UNION {EncodingWarning(tree.files[f], f) : f \in DOMAIN tree.files}
      \cup (IF name \in DOMAIN tree.src
            THEN CoreWarning(tree.src[name], feats, descr)
                   \cup EncodingWarning(tree.src[name].html, "index.html")
            ELSE {})

update_configuration_files ==
    /\ pc = "update_configuration_files"
    /\ \E outcome \in FeatureOutcomes :
          LET feats == generate_features(project_name, outcome)
          IN  /\ features' = feats
              /\ IF ProjectPathResolves
                 THEN /\ fs' = [fs EXCEPT !.tree = UpdateTree(@, project_name, feats, description)]
                      /\ warnings' = warnings \cup
                            UpdateWarnings(fs.tree, project_name, feats, description)
                 ELSE UNCHANGED <<fs, warnings>>
    /\ runs' = Ran({"features request"})
    /\ Return
    /\ UNCHANGED <<inputs, cwd, theme, removal, reported>>

\* the commands of cmds that run when bad is the one that fails: those up
\* to it, or all of them when none fails
UpTo(cmds, bad) ==
    IF bad \in Range(cmds) THEN {cmds[i] : i \in 1..IndexIn(cmds, bad)} ELSE Range(cmds)

Succeeded(cmds, bad) == UpTo(cmds, bad) \ {bad}

\* subprocess.run(..., check=False): a failing command is ignored
UncheckedRun(bad) == Goto(NextStep(pc), IF bad = "none" THEN error ELSE bad)

\* subprocess.run(..., check=True): a failing command raises
CheckedRun(bad) == IF bad = "none" THEN Return ELSE Raise(bad)

PagesCommands == <<"pages git init", "pages git add", "pages git commit">>

initialize_modules ==
    /\ pc = "initialize_modules"
    /\ \E bad \in {"none"} \cup Range(PagesCommands) :
          LET done == Succeeded(PagesCommands, bad)
          IN  /\ runs' = Ran(UpTo(PagesCommands, bad))
              /\ fs' = [fs EXCEPT
                    !.tree.src = IF modules \in DOMAIN @ THEN @
                                 ELSE [d \in DOMAIN @ \cup {modules} |->
                                          IF d = modules THEN OtherDir ELSE @[d]],
                    !.built = @ \cup {"pages"}
                        \cup (IF "pages git init" \in done THEN {"pages/.git", "pages scaffold"} ELSE {})
                        \cup (IF "pages git add" \in done THEN {"pages index"} ELSE {})
                        \cup (IF "pages git commit" \in done THEN {"pages commit"} ELSE {})]
              /\ CheckedRun(bad)
    /\ UNCHANGED <<inputs, cwd, warnings, features, theme, removal, reported>>

\* ------------------------------------------------------------------------
\* utils/flask_keygen.py
\* ------------------------------------------------------------------------

KeyPrefix ==
    <<"F", "L", "A", "S", "K", "_", "S", "E", "C", "R", "E", "T", "_", "K", "E", "Y", "=">>

\* generate_secret_key: secrets.token_hex(32), a fresh value that no file
\* holds yet
secret_key == <<"n", "e", "w">>

\* f'FLASK_SECRET_KEY={secret_key}\n'
NewKeyLine == KeyPrefix \o secret_key \o <<"\n">>

RECURSIVE ReadLines(_)
\* f.readlines(): the lines with their terminators; the last one has none
\* when the text does not end in a newline
ReadLines(s) ==
    IF s = <<>> THEN <<>>
    ELSE IF \A i \in 1..Len(s) : s[i] # "\n" THEN <<s>>
    ELSE LET k == CHOOSE i \in 1..Len(s) :
                      /\ s[i] = "\n"
                      /\ \A j \in 1..(i - 1) : s[j] # "\n"
         IN  <<SubSeq(s, 1, k)>> \o ReadLines(Drop(s, k))

RECURSIVE WriteLines(_)
\* f.writelines(lines): the lines one after the other, nothing added
WriteLines(lines) ==
    IF lines = <<>> THEN <<>> ELSE Head(lines) \o WriteLines(Tail(lines))

\* the indexes of the lines with line.startswith('FLASK_SECRET_KEY=')
KeyLines(lines) == {i \in DOMAIN lines : StartsWith(lines[i], KeyPrefix)}

FirstOf(S) == CHOOSE i \in S : \A j \in S : i <= j

\* lines 18-27: the first key line is replaced, else a key line is appended
UpdateLines(lines) ==
    IF KeyLines(lines) # {}
    THEN [lines EXCEPT ![FirstOf(KeyLines(lines))] = NewKeyLine]
    ELSE Append(lines, NewKeyLine)

\* update_env_file on the .env file
UpdateEnv(file) ==
    IF file.exists
    THEN TextFile(WriteLines(UpdateLines(ReadLines(file.data))))
    ELSE TextFile(NewKeyLine)

\* env_file.touch()
Touch(file) == IF file.exists THEN file ELSE TextFile(<<>>)

\* flask_keygen.py run on its own
update_env_file ==
    /\ pc = "update_env_file"
    /\ fs' = [fs EXCEPT !.env = UpdateEnv(@)]
    /\ pc' = "done"
    /\ exitCode' = 0
    /\ UNCHANGED <<inputs, error, cwd, warnings, stages, runs, features, theme, removal,
                   reported>>

ProjectCommands == <<"git init", "flask_keygen", "pip install">>

\* initialize_project with setup_virtual_environment and setup_git_hooks.
\* env_file.touch(), venv.create and the copy of utils/pre-push (a file the
\* template repository ships) are taken to succeed; the three subprocess.run
\* calls may fail.
initialize_project ==
    /\ pc = "initialize_project"
    /\ \E bad \in {"none"} \cup Range(ProjectCommands) :
          LET done == Succeeded(ProjectCommands, bad)
          IN  /\ runs' = Ran(UpTo(ProjectCommands, bad))
              /\ fs' = [fs EXCEPT
                    !.env = IF "flask_keygen" \in done THEN UpdateEnv(Touch(@))
                            ELSE IF "git init" \in done THEN Touch(@) ELSE @,
                    !.built = @
                        \cup (IF "git init" \in done THEN {".git", ".env"} ELSE {})
                        \cup (IF "flask_keygen" \in done THEN {"FLASK_SECRET_KEY", "venv"} ELSE {})
                        \cup (IF "pip install" \in done THEN {"requirements", "pre-push"} ELSE {})]
              /\ CheckedRun(bad)
    /\ UNCHANGED <<inputs, cwd, warnings, features, theme, removal, reported>>

ThemeOutcomes ==
    {"ok", "colors error", "bad json", "no primary-color", "image error", "download failed"}

\* the requests generate_theme issues before outcome ends it
ThemeRequests(outcome) ==
    {"colors request"}
      \cup (IF outcome \in {"ok", "image error", "download failed"} THEN {"image request"} ELSE {})
      \cup (IF outcome \in {"ok", "download failed"} THEN {"logo download"} ELSE {})

\* generate_theme with its errors logged and not raised again
generate_theme_swallowing ==
    /\ pc = "generate_theme"
    /\ IF ~apiKey
       THEN print_error("OPENAI_API_KEY is required") /\ UNCHANGED <<runs, theme>>
       ELSE \E outcome \in ThemeOutcomes :
               /\ runs' = Ran(ThemeRequests(outcome))
               /\ IF outcome = "ok"
                  THEN Return /\ theme' = "ready"
                  ELSE Goto(NextStep(pc), outcome) /\ theme' = theme
    /\ UNCHANGED <<inputs, cwd, fs, warnings, features, removal, reported>>

\* generate_theme: the requests are issued in turn, once each; whatever
\* fails (the request itself, the JSON of the colours, a missing
\* primary-color, the status of the download) is logged and raised again
generate_theme ==
    /\ pc = "generate_theme"
    /\ IF ~apiKey
       THEN print_error("OPENAI_API_KEY is required") /\ UNCHANGED <<runs, theme>>
       ELSE \E outcome \in ThemeOutcomes :
               /\ runs' = Ran(ThemeRequests(outcome))
               /\ IF outcome = "ok"
                  THEN Return /\ theme' = "ready"
                  ELSE Raise(outcome) /\ theme' = theme
    /\ UNCHANGED <<inputs, cwd, fs, warnings, features, removal, reported>>

update_theme_files ==
    /\ pc = "update_theme_files"
    /\ fs' = [fs EXCEPT !.built = @ \cup {"logo.png"}
                 \cup (IF project_name \in DOMAIN fs.tree.src THEN {"styles.css"} ELSE {})]
    /\ Return
    /\ UNCHANGED <<inputs, cwd, warnings, runs, features, theme, removal, reported>>

\* main, lines 559-564
report ==
    /\ pc = "report"
    /\ reported' = TRUE
    /\ Return
    /\ UNCHANGED <<inputs, cwd, fs, warnings, runs, features, theme, removal>>

\* ------------------------------------------------------------------------
\* Runs of main
\* ------------------------------------------------------------------------

MyApp == <<"M", "y", "A", "p", "p">>

BadName == <<"b", "a", "d", " ", "n", "a", "m", "e", "!">>

RelDir == <<"o", "u", "t">>

AbsDir == <<"/", "o", "u", "t">>

TargetDirs == {RelDir, AbsDir}

\* the command lines: no argument, a name, a name and a target directory
Argvs(names) ==
    {<<>>} \cup {<<n>> : n \in names} \cup {<<n, d>> : n \in names, d \in TargetDirs}

\* the file systems main may start in: the working directory exists, the
\* project directory only if the target directory does
FileSystems(dir) ==
    {[parent |-> p, proj |-> q, temp |-> t, tree |-> NoTree, built |-> {}, env |-> Absent] :
        p \in (IF dir = Dot THEN {TRUE} ELSE BOOLEAN), q \in BOOLEAN, t \in BOOLEAN}
      \ {[parent |-> FALSE, proj |-> TRUE, temp |-> t, tree |-> NoTree, built |-> {},
           env |-> Absent] :
            t \in BOOLEAN}

InitWith(argvs, remotes, descriptions) ==
    /\ argv \in argvs
    /\ apiKey \in BOOLEAN
    /\ remote \in remotes
    /\ description \in descriptions
    /\ fs0 \in FileSystems(project_dir)
    /\ fs = fs0
    /\ pc = "main"
    /\ exitCode = -1
    /\ error = "none"
    /\ cwd = "start"
    /\ warnings = {}
    /\ stages = <<>>
    /\ runs = [c \in Commands |-> 0]
    /\ features = "unset"
    /\ theme = "unset"
    /\ removal = <<>>
    /\ reported = FALSE

MainNames == {<<>>, MyApp, BadName, Brand, app_name, modules}

OnlyApp == [d \in {app_name} |-> Package(BinaryFile)]

OnlyModules == [d \in {modules} |-> OtherDir]

MainRemotes ==
    {TemplateRepo,
     Tree(OnlyApp, [AllText EXCEPT !["README.md"] = Absent, !["Dockerfile"] = BinaryFile]),
     Tree(OnlyModules, AllText)}

Init == InitWith(Argvs(MainNames), MainRemotes, {"plain", "backslash"})

Next ==
    \/ main
    \/ validate_inputs
    \/ setup_project_directory
    \/ clean_temp_clone
    \/ git_clone
    \/ copy_template
    \/ safe_remove_git_dir
    \/ chdir
    \/ rename_project_files
    \/ update_python_files
    \/ check_api_key
    \/ update_configuration_files
    \/ initialize_modules
    \/ initialize_project
    \/ generate_theme
    \/ update_theme_files
    \/ report

Spec == Init /\ [][Next]_vars

\* ------------------------------------------------------------------------
\* validate_inputs on every short name over a small alphabet
\* ------------------------------------------------------------------------

MaxNameLen == 3

NameAlphabet == {"a", "Z", "7", "-", "_", " ", "!", "\n"}

Strings(alphabet, n) == UNION {[1..k -> alphabet] : k \in 0..n}

InitValidate ==
    InitWith({<<n>> : n \in Strings(NameAlphabet, MaxNameLen)}, {TemplateRepo}, {"plain"})

NextValidate == main \/ validate_inputs

SpecValidate == InitValidate /\ [][NextValidate]_vars

\* ------------------------------------------------------------------------
\* The rewrite of README.md and of the templates on composed contents
\* ------------------------------------------------------------------------

MaxChunks == 2

Chunks == {Brand, Lower(Brand), Upper(Brand), <<"F", "l", "a", "s", "k", "2">>, <<"x", " ">>}

RECURSIVE Contents(_)
Contents(n) ==
    IF n = 0 THEN {<<>>}
    ELSE Contents(n - 1) \cup {c \o k : c \in Contents(n - 1), k \in Chunks}

Fly == <<"F", "l", "y">>

MyFlask2Fly == <<"M", "y", "F", "l", "a", "s", "k", "2", "F", "l", "y">>

RewriteNames == {MyApp, Fly, MyFlask2Fly}

RewriteRemotes ==
    {Tree([d \in {app_name} |-> Package(TextFile(c))],
          [AllText EXCEPT !["README.md"] = TextFile(c)]) : c \in Contents(MaxChunks)}

InitRewrite == InitWith({<<n, AbsDir>> : n \in RewriteNames}, RewriteRemotes, {"plain"})

SpecRewrite == InitRewrite /\ [][Next]_vars

\* ------------------------------------------------------------------------
\* update_configuration_files on every combination of missing, readable
\* and undecodable configuration files
\* ------------------------------------------------------------------------

FileStates(f) == {Absent, TextFile(TemplateText(f)), BinaryFile}

ConfigRemotes ==
    {Tree(FullSrc, files) :
        files \in {g \in [Range(ConfigFiles) -> {Absent, BinaryFile} \cup
                              {TextFile(TemplateText(f)) : f \in Range(ConfigFiles)}] :
                      \A f \in Range(ConfigFiles) : g[f] \in FileStates(f)}}

InitConfigs == InitWith({<<MyApp, AbsDir>>}, ConfigRemotes, {"plain"})

SpecConfigs == InitConfigs /\ [][Next]_vars

\* ------------------------------------------------------------------------
\* safe_remove_git_dir called on a path that exists or does not
\* ------------------------------------------------------------------------

RemoveNames == {MyApp, Brand, Fly, MyFlask2Fly}

\* main is about to call safe_remove_git_dir (line 534): the template is in
\* the project directory; the path to remove is there or is already gone
InitRemove ==
    /\ argv \in {<<n>> : n \in RemoveNames} \cup {<<n, d>> : n \in RemoveNames, d \in TargetDirs}
    /\ apiKey \in BOOLEAN
    /\ remote \in MainRemotes
    /\ description \in {"plain", "backslash"}
    /\ fs0 \in {[parent |-> TRUE, proj |-> TRUE, temp |-> t, tree |-> remote, built |-> {},
                  env |-> Absent] : t \in BOOLEAN}
    /\ fs = fs0
    /\ pc = "safe_remove_git_dir"
    /\ exitCode = -1
    /\ error = "none"
    /\ cwd = "start"
    /\ warnings = {}
    /\ stages = <<"Validate", "Fetch">>
    /\ runs = [c \in Commands |-> IF c = "git clone" THEN 1 ELSE 0]
    /\ features = "unset"
    /\ theme = "unset"
    /\ removal = <<>>
    /\ reported = FALSE

NextRemove == safe_remove_git_dir \/ chdir

SpecRemove == InitRemove /\ [][NextRemove]_vars

\* ------------------------------------------------------------------------
\* flask_keygen.py on every .env file of a few lines
\* ------------------------------------------------------------------------

MaxEnvLines == 3

OldKey == KeyPrefix \o <<"o", "l", "d">>

\* a key line, a blank line, another setting, and a line that holds the key
\* name but does not start with it
EnvLines == {OldKey, <<>>, <<"D", "=", "1">>, <<"X", "_">> \o OldKey}

RECURSIVE EnvTexts(_)
\* the texts of n lines, each with its newline
EnvTexts(n) ==
    IF n = 0 THEN {<<>>}
    ELSE {t \o l \o <<"\n">> : t \in EnvTexts(n - 1), l \in EnvLines}

\* the same texts, and those whose last line has no newline
EnvFiles ==
    {Absent}
      \cup {TextFile(t) : t \in UNION {EnvTexts(n) : n \in 0..MaxEnvLines}}
      \cup {TextFile(t \o l) : t \in UNION {EnvTexts(n) : n \in 0..(MaxEnvLines - 1)},
                                l \in EnvLines \ {<<>>}}

InitEnv ==
    /\ argv = <<>>
    /\ apiKey = FALSE
    /\ remote = NoTree
    /\ description = "plain"
    /\ fs0 \in {[parent |-> TRUE, proj |-> TRUE, temp |-> FALSE, tree |-> NoTree, built |-> {},
                  env |-> e] : e \in EnvFiles}
    /\ fs = fs0
    /\ pc = "update_env_file"
    /\ exitCode = -1
    /\ error = "none"
    /\ cwd = "project"
    /\ warnings = {}
    /\ stages = <<>>
    /\ runs = [c \in Commands |-> 0]
    /\ features = "unset"
    /\ theme = "unset"
    /\ removal = <<>>
    /\ reported = FALSE

NextEnv == update_env_file

SpecEnv == InitEnv /\ [][NextEnv]_vars

\* ------------------------------------------------------------------------
\* Properties
\* ------------------------------------------------------------------------

IsPrefix(s, t) == Len(s) <= Len(t) /\ \A i \in 1..Len(s) : s[i] = t[i]

HasArgument == Len(argv) >= 1

\* the whole name matches ^[A-Za-z][A-Za-z0-9_-]*$
WholeNameMatches(name) ==
    /\ Len(name) >= 1
    /\ IsLetter(name[1])
    /\ \A i \in 2..Len(name) : IsNameChar(name[i])

\* C1: once validate_inputs has run, the run goes on exactly if the whole
\* project name matches ^[A-Za-z][A-Za-z0-9_-]*$, and every other name has
\* ended the process with exit code 1.
C1_AcceptsExactlyThePattern ==
    (HasArgument /\ pc \notin {"main", "validate_inputs"}) =>
        IF WholeNameMatches(project_name)
        THEN pc # "exit"
        ELSE pc = "exit" /\ exitCode = 1

NothingRun == \A c \in Commands : runs[c] = 0

ValidationErrors == {"usage", "bad project name", "directory already exists"}

\* the name is one validate_inputs rejects, or the target path exists
MustBeRejected == HasArgument /\ (~ReMatchName(project_name) \/ fs0.proj)

\* C2: a run that input validation rejects (malformed name, or target path
\* already there) never changes the file system and never runs git clone or
\* any other command, and it ends with exit code 1.
C2_RejectedBeforeAnyMutation ==
    /\ MustBeRejected =>
          /\ fs = fs0
          /\ NothingRun
          /\ pc \in {"main", "validate_inputs", "setup_project_directory", "exit"}
          /\ pc = "exit" => error \in ValidationErrors
    /\ (pc = "exit" /\ error \in ValidationErrors) =>
          fs = fs0 /\ NothingRun /\ exitCode = 1

C2_Witness ==
    /\ pc = "exit"
    /\ error = "directory already exists"
    /\ project_name = MyApp
    /\ fs0.proj /\ fs0.temp
    /\ fs = fs0

ProcessCommands ==
    <<"git clone", "pages git init", "pages git add", "pages git commit", "git init",
      "flask_keygen", "pip install">>

ExternalFailures == Range(ProcessCommands) \cup (ThemeOutcomes \ {"ok"})

AppLine(name) == AppEq \o <<"'">> \o name \o <<"'">>

HasLine(text, line) == \E i \in DOMAIN SplitLines(text) : SplitLines(text)[i] = line

\* C3: a run for "MyApp" with no MyApp directory, the template repository
\* as the remote and every command and request succeeding ends with the
\* success report, a package directory src/MyApp, an app = 'MyApp' line in
\* fly.toml and no "Flask2Fly" left in README.md, whatever the target
\* directory argument is.
C3_MyAppScenario ==
    (/\ HasArgument /\ project_name = MyApp
     /\ ~fs0.proj /\ apiKey /\ remote = TemplateRepo
     /\ pc \in Terminal
     /\ error \notin ExternalFailures
     /\ features \in {"unset", "generated"}) =>
        /\ pc = "done" /\ reported
        /\ MyApp \in DOMAIN fs.tree.src
        /\ fs.tree.src[MyApp].kind = "package"
        /\ HasLine(fs.tree.files["fly.toml"].data, AppLine(MyApp))
        /\ ~Contains(fs.tree.files["README.md"].data, Brand)

CodeStages ==
    <<"Validate", "Fetch", "Rename", "RewriteConfigs", "InitModules", "InitProject",
      "GenerateTheme", "Report">>

SpecStages ==
    <<"Validate", "Fetch", "Rename", "RewriteConfigs", "GenerateTheme", "InitModules",
      "InitProject", "Report">>

\* C4, as amended: the stages run at most once each and in the order
\* Validate, Fetch, Rename, RewriteConfigs, InitModules, InitProject,
\* GenerateTheme, Report: the theme is generated after the modules, git and
\* the virtual environment are initialized, and before the report.
C4_StagesInCodeOrder == IsPrefix(stages, CodeStages)

\* C4, as stated: the stages run in the order Validate, Fetch, Rename,
\* RewriteConfigs, GenerateTheme, InitModules, InitProject, Report.
C4_StagesInSpecOrder == IsPrefix(stages, SpecStages)

C4_Witness == pc = "done" /\ stages = CodeStages /\ theme = "ready"

\* C5: when rename_project_files has run on a src directory that holds
\* app_name, app_name has become <project_name> and every other directory
\* that was under src is still there with its contents.
C5_SiblingsUntouched ==
    (HasArgument /\ (pc = "update_python_files" \/ error = "FileNotFoundError")) =>
        /\ DOMAIN fs.tree.src = (DOMAIN remote.src \ {app_name}) \cup {project_name}
        /\ \A d \in DOMAIN remote.src \ {app_name} :
              d \in DOMAIN fs.tree.src /\ fs.tree.src[d] = remote.src[d]

Rewritten == HasArgument /\ features # "unset"

\* C6: after the configuration rewrite neither README.md nor the templates
\* hold the brand "Flask2Fly", and the same substitutions applied once more
\* to the rewritten files change nothing.
C6_BrandGoneAndIdempotent ==
    Rewritten =>
        /\ ~Contains(fs.tree.files["README.md"].data, Brand)
        /\ ~Contains(fs.tree.src[project_name].html.data, Brand)
        /\ \A f \in Range(ConfigFiles) :
              SubFor(f, fs.tree.files[f].data, project_name) = fs.tree.files[f].data
        /\ SubTemplate(fs.tree.src[project_name].html.data, project_name)
              = fs.tree.src[project_name].html.data

\* C7: update_configuration_files leaves a missing file missing, leaves an
\* undecodable file as it was and warns about it, rewrites every other file
\* whatever the state of the rest, and the run goes on to initialize the
\* modules.
C7_EachFileOnItsOwn ==
    Rewritten =>
        /\ \A f \in Range(ConfigFiles) :
              LET before == remote.files[f]
                  after  == fs.tree.files[f]
              IN  /\ ~before.exists => after = before
                  /\ (before.exists /\ ~before.utf8) =>
                        after = before /\ <<"Could not update", f>> \in warnings
                  /\ (before.exists /\ before.utf8) =>
                        after = TextFile(SubFor(f, before.data, project_name))
        /\ pc \notin {"exit"}
        /\ pc \in Terminal => "InitModules" \in Range(stages)

C7_Witness ==
    /\ pc = "initialize_modules"
    /\ ~fs.tree.files["fly.toml"].exists
    /\ ~fs.tree.files["docker-compose.yml"].utf8
    /\ <<"Could not update", "docker-compose.yml">> \in warnings
    /\ fs.tree.files["Dockerfile"].data = SubDockerfile(DockerfileText, MyApp)
    /\ ~Contains(fs.tree.files["README.md"].data, Brand)

\* C8: when safe_remove_git_dir has returned to main and the temporary
\* clone is still there, the warning has been printed.
C8_WarnsWhenCloneRemains ==
    (pc = "chdir" /\ fs.temp) => CleanupWarning \in warnings

PackageDir == fs.tree.src[project_name]

\* C9, as amended: when the feature request fails or its response is
\* invalid, generate_features returns the hard-coded list for the project
\* name "Flask2Fly" and None for every other name, and raises nothing.  The
\* fallback list is patched into core.py (unless re.sub rejects the
\* description).  With None, core.py stays as the template has it, a
\* warning is printed and the run goes on with the later stages.
C9_FallbackOrWarning ==
    Rewritten =>
        /\ features = "fallback" =>
              /\ project_name = Brand
              /\ PackageDir.core = IF description = "plain" THEN "fallback" ELSE "template"
        /\ features = "None" =>
              /\ project_name # Brand
              /\ PackageDir.kind = "package" =>
                    /\ PackageDir.core = "template"
                    /\ <<"Could not update", "core.py">> \in warnings
              /\ pc # "exit"
              /\ pc \in Terminal => "InitModules" \in Range(stages)

\* C9, as stated: the fallback list is used for "Flask2Fly"; for every other
\* name the failure aborts the run, and no later stage runs.
C9_FailurePropagates ==
    Rewritten =>
        /\ features = "fallback" => project_name = Brand
        /\ features = "None" =>
              /\ pc \in {"update_configuration_files", "exit", "crashed"}
              /\ "InitModules" \notin Range(stages)
              /\ ~reported

C9_Witness ==
    /\ pc = "done" /\ reported
    /\ features = "None"
    /\ project_name = MyApp
    /\ PackageDir.core = "template"
    /\ <<"Could not update", "core.py">> \in warnings

\* what initialize_modules and initialize_project have made when cmd starts
\* (nothing yet for git clone: main creates the project directory after it)
BuiltBefore(cmd) ==
    CASE cmd = "git clone" -> {}
      [] cmd = "pages git init" -> {"pages"}
      [] cmd = "pages git add" -> {"pages", "pages/.git", "pages scaffold"}
      [] cmd = "pages git commit" -> {"pages", "pages/.git", "pages scaffold", "pages index"}
      [] cmd = "git init" ->
            {"pages", "pages/.git", "pages scaffold", "pages index", "pages commit"}
      [] cmd = "flask_keygen" ->
            {"pages", "pages/.git", "pages scaffold", "pages index", "pages commit",
             ".git", ".env"}
      [] cmd = "pip install" ->
            {"pages", "pages/.git", "pages scaffold", "pages index", "pages commit",
             ".git", ".env", "FLASK_SECRET_KEY", "venv"}

StageOfCommand(cmd) ==
    CASE cmd = "git clone" -> "Fetch"
      [] cmd \in Range(PagesCommands) -> "InitModules"
      [] cmd \in Range(ProjectCommands) -> "InitProject"

\* C10: when an external process fails (git clone, git init, add or commit
\* in the pages module, git init in the project, the key generator, pip
\* install), the run is over: the command has run once, no later command,
\* request or stage has run, the success report is not printed, and what
\* had been built is still there.
C10_ProcessFailureAborts ==
    error \in Range(ProcessCommands) =>
        LET k == IndexIn(ProcessCommands, error)
        IN  /\ pc = "crashed" /\ exitCode = 1
            /\ \A i \in 1..k : runs[ProcessCommands[i]] = 1
            /\ \A i \in (k + 1)..Len(ProcessCommands) : runs[ProcessCommands[i]] = 0
            /\ \A c \in {"colors request", "image request", "logo download"} : runs[c] = 0
            /\ stages[Len(stages)] = StageOfCommand(error)
            /\ theme = "unset"
            /\ ~reported
            /\ fs.parent
            /\ fs.built = BuiltBefore(error)
            /\ error # "git clone" =>
                  fs.proj /\ project_name \in DOMAIN fs.tree.src

C10_Witness ==
    /\ pc = "crashed"
    /\ error = "pip install"
    /\ runs["pip install"] = 1
    /\ "venv" \in fs.built
    /\ fs.proj

AllCommandsOnce == \A c \in Commands : runs[c] = 1

\* every stage of main has run to its end and the report is printed
AllStagesDone ==
    /\ pc = "done" /\ reported
    /\ stages = CodeStages
    /\ error = "none"
    /\ ReMatchName(project_name) /\ ~fs0.proj
    /\ fs.proj /\ fs.tree # NoTree
    /\ PackageDir.kind = "package" /\ app_name \notin DOMAIN fs.tree.src
    /\ features # "unset"
    /\ AllCommandsOnce
    /\ {"pages commit", ".git", "FLASK_SECRET_KEY", "venv", "pre-push"} \subseteq fs.built
    /\ theme = "ready" /\ "logo.png" \in fs.built

\* the features are in core.py
CorePatched == PackageDir.core \in {"generated", "fallback"}

\* the exit code is set exactly when the run is over, and every run that
\* print_error or an uncaught exception ended has exit code 1
FailuresExitOne ==
    /\ exitCode \in {-1, 0, 1}
    /\ exitCode # -1 <=> pc \in Terminal
    /\ pc \in {"exit", "crashed"} <=> error # "none"
    /\ error # "none" => exitCode = 1 /\ ~reported

\* C11, as amended: a run ends with exit code 0 only if validation, fetch,
\* rename, the configuration rewrite, module and project initialization
\* and theme generation ran to their end and the report was printed; the
\* patch of core.py with the features is not among the conditions, since
\* its failure is caught and only warned about.  Every run that a
\* validation failure, a print_error or an uncaught exception ends has
\* exit code 1.
C11_ExitZeroOnlyAfterAllStages ==
    /\ FailuresExitOne
    /\ exitCode = 0 => AllStagesDone
    /\ (exitCode = 0 /\ ~CorePatched) => <<"Could not update", "core.py">> \in warnings

\* C11, as stated: exit code 0 also means that core.py was patched with
\* the features.
C11_ExitZeroMeansCorePatched ==
    /\ FailuresExitOne
    /\ exitCode = 0 => AllStagesDone /\ CorePatched

C11_Witness ==
    /\ exitCode = 0 /\ pc = "done" /\ reported
    /\ features = "generated"
    /\ description = "backslash"
    /\ PackageDir.core = "template"
    /\ <<"Could not update", "core.py">> \in warnings

ApiRequests == {"features request", "colors request", "image request", "logo download"}

ThemeFailures == ThemeOutcomes \ {"ok"}

AfterApiKeyCheck ==
    {"update_configuration_files", "initialize_modules", "initialize_project",
     "generate_theme", "update_theme_files", "report", "done"}

ThemeWritten == {"logo.png", "styles.css"} \cap fs.built

\* C12: in one run the colour request, the image request and the logo
\* download are issued at most once each.  Without OPENAI_API_KEY the run
\* never gets past the test of the credential, issues no API request and
\* ends with exit code 1.  When generate_theme fails (the colours are not
\* JSON, the download is not a 200, or any other of its errors) the error
\* leaves main, the requests made are the ones up to the failure, once
\* each, and neither logo.png nor styles.css is written; the two are
\* written only after all three requests succeeded.
C12_ThemeSingleAttempt ==
    /\ \A c \in ApiRequests : runs[c] <= 1
    /\ ~apiKey =>
          /\ \A c \in ApiRequests : runs[c] = 0
          /\ pc \notin AfterApiKeyCheck
          /\ pc \in Terminal => exitCode = 1
          /\ ThemeWritten = {}
    /\ error \in ThemeFailures =>
          /\ pc = "crashed" /\ exitCode = 1
          /\ \A c \in ApiRequests \ {"features request"} :
                runs[c] = IF c \in ThemeRequests(error) THEN 1 ELSE 0
          /\ theme = "unset"
          /\ ThemeWritten = {}
          /\ ~reported
    /\ ThemeWritten # {} =>
          /\ theme = "ready"
          /\ \A c \in ApiRequests : runs[c] = 1

C12_Witness ==
    /\ pc = "crashed"
    /\ error = "download failed"
    /\ runs["colors request"] = 1 /\ runs["image request"] = 1 /\ runs["logo download"] = 1
    /\ ThemeWritten = {}
    /\ exitCode = 1

Escalation == <<"rmtree", "chmod rmtree", "rm -rf">>

Returned == pc \notin {"safe_remove_git_dir"}

\* C13: when safe_remove_git_dir has returned, what it tried is a prefix of
\* plain recursive delete, read-only attributes cleared and delete again,
\* shell-level forced delete; every strategy but the first was tried only
\* after the one before it left the directory in place, so nothing was
\* tried once the directory was gone; on a path that did not exist nothing
\* was tried at all, and on one that existed the plain delete was.
C13_EscalatesInOrder ==
    Returned =>
        /\ Len(removal) <= Len(Escalation)
        /\ \A i \in 1..Len(removal) : removal[i][1] = Escalation[i]
        /\ \A i \in 2..Len(removal) : removal[i - 1][2] = "remains"
        /\ \A i \in 1..Len(removal) : removal[i][2] = "removed" => i = Len(removal)
        /\ fs0.temp <=> removal # <<>>
        /\ fs.temp => fs0.temp /\ removal[Len(removal)][2] # "removed"

C13_Witness ==
    /\ Returned
    /\ fs0.temp
    /\ removal = <<Tried("rmtree", "remains"), Tried("chmod rmtree", "removed")>>
    /\ ~fs.temp

RenameErrors == {"Source directory not found", "App directory not found", "FileNotFoundError"}

\* rename_project_files has been called on a tree that holds src/app_name,
\* and is over
RenamedFromPlaceholder ==
    /\ HasArgument
    /\ IsAbsolute(project_dir)
    /\ app_name \in DOMAIN remote.src
    /\ pc = "update_python_files" \/ error \in RenameErrors

\* C14: for every accepted project name, "app_name" and the names of
\* directories already under src included, rename_project_files called on
\* a tree that holds src/app_name returns normally, and then
\* src/<project_name> is there and holds exactly what src/app_name held.
C14_PackageSurvivesRename ==
    RenamedFromPlaceholder =>
        /\ pc = "update_python_files"
        /\ project_name \in DOMAIN fs.tree.src
        /\ fs.tree.src[project_name] = remote.src[app_name]

\* a line without its terminator
Chomp(line) ==
    IF line # <<>> /\ line[Len(line)] = "\n" THEN SubSeq(line, 1, Len(line) - 1) ELSE line

\* the lines of a .env file, none for a file that is not there
EnvLinesOf(file) ==
    IF file.exists THEN [i \in DOMAIN ReadLines(file.data) |-> Chomp(ReadLines(file.data)[i])]
    ELSE <<>>

NewKey == KeyPrefix \o secret_key

\* C15: after update_env_file the .env file is there and has a line
\* FLASK_SECRET_KEY=<the new key>; if the file had a line starting with
\* FLASK_SECRET_KEY=, the first such line is the one replaced and every
\* other line is as it was and where it was; otherwise the lines are the
\* old ones followed by the new key line.
C15_KeyLineSetOthersKept ==
    pc = "done" =>
        LET before == EnvLinesOf(fs0.env)
            after  == EnvLinesOf(fs.env)
            keys   == KeyLines(before)
        IN  /\ fs.env.exists
            /\ \E i \in DOMAIN after : after[i] = NewKey
            /\ IF keys # {}
               THEN /\ Len(after) = Len(before)
                    /\ \A i \in DOMAIN before :
                          after[i] = IF i = FirstOf(keys) THEN NewKey ELSE before[i]
               ELSE after = Append(before, NewKey)

=============================================================================
